---------------------------- MODULE Spec2Model ----------------------------
(* A model of the eScriptorium maintenance scripts reassign.py and         *)
(* remove-duplicates.py: bounding boxes of polygon masks, the two overlap  *)
(* metrics, the two decision functions built on them, and the per-part     *)
(* driver loops that write the decisions back.                             *)
(*                                                                         *)
(* Python floats are modelled as exact fractions <<num, den>> with         *)
(* den > 0; a comparison of two floats is a comparison of cross products.  *)
EXTENDS Integers, Sequences, FiniteSets

VARIABLES
    boxA, boxB, scoreAB, scoreBA,                 \* arguments and results of iou
    lines, regions,                               \* the part's lines and regions as fetched
    server_lines,                                 \* the same lines as the server holds them
    phase,                                        \* how far the calls on a part have gone
    lines_before,                                 \* the list of lines passed to each call so far
    to_delete, require_updates,                   \* results of the decision functions
    driver, part_ids, store, cursor, log, fetch_failed

metricVars == <<boxA, boxB, scoreAB, scoreBA>>
engineVars == <<lines, regions, server_lines, lines_before, to_delete, require_updates>>
driverVars == <<driver, part_ids, store, cursor, log, fetch_failed>>
vars == <<metricVars, engineVars, phase, driverVars>>

-----------------------------------------------------------------------------
(* Bounds of the model *)

\* largest coordinate of a mask point
MaxCoord == 3
\* most lines of a part handed to detect_duplicates_to_delete
MaxLines == 3
\* most lines of a part handed to detect_reassignment
MaxRLines == 2
\* most regions of a part
MaxRegions == 2
\* most parts of a document
MaxParts == 2

-----------------------------------------------------------------------------
(* Arithmetic helpers: Python's max, min, abs and float comparison *)

max(a, b) == IF a >= b THEN a ELSE b

min(a, b) == IF a <= b THEN a ELSE b

abs(a) == IF a < 0 THEN -a ELSE a

\* min(xs) and max(xs) of a non-empty list
RECURSIVE MinOf(_)
MinOf(xs) == IF Len(xs) = 1 THEN xs[1] ELSE min(xs[1], MinOf(Tail(xs)))

RECURSIVE MaxOf(_)
MaxOf(xs) == IF Len(xs) = 1 THEN xs[1] ELSE max(xs[1], MaxOf(Tail(xs)))

\* p > q and p == q on floats p = p[1]/p[2], q = q[1]/q[2]
FloatGT(p, q) == p[1] * q[2] > q[1] * p[2]

FloatEQ(p, q) == p[1] * q[2] = q[1] * p[2]

\* the literals 0 (and 0.0) and 0.5
Zero == <<0, 1>>

Half == <<1, 2>>

-----------------------------------------------------------------------------
(* Masks.  A coordinate is a bare number or a dict {"parsedValue": n};     *)
(* a point is a pair of coordinates; a mask is a list of points.           *)

Raw(n) == [isdict |-> FALSE, value |-> n]

Wrapped(n) == [isdict |-> TRUE, parsedValue |-> n]

Coord(n, wire) == IF wire THEN Wrapped(n) ELSE Raw(n)

\* the mask with corner points (x0, y0) and (x1, y1)
CornerMask(x0, y0, x1, y1, wire) ==
    << <<Coord(x1, wire), Coord(y0, wire)>>, <<Coord(x0, wire), Coord(y1, wire)>> >>

\* extract_bbox raises on an empty mask (mask[0] is an IndexError)
extract_bbox_raises(mask) == Len(mask) = 0

extract_bbox(mask) ==
    LET xs == IF mask[1][1].isdict
              THEN [i \in 1..Len(mask) |-> mask[i][1].parsedValue]
              ELSE [i \in 1..Len(mask) |-> mask[i][1].value]
        ys == IF mask[1][1].isdict
              THEN [i \in 1..Len(mask) |-> mask[i][2].parsedValue]
              ELSE [i \in 1..Len(mask) |-> mask[i][2].value]
    IN  <<MinOf(xs), MinOf(ys), MaxOf(xs), MaxOf(ys)>>

-----------------------------------------------------------------------------
(* remove-duplicates.py: iou *)

\* a slip that divides by the first box's area instead of the union's
iou_overFirstArea(boxA_, boxB_) ==
    LET xA == max(boxA_[1], boxB_[1])
        yA == max(boxA_[2], boxB_[2])
        xB == min(boxA_[3], boxB_[3])
        yB == min(boxA_[4], boxB_[4])
        inter_area == max(0, xB - xA) * max(0, yB - yA)
        areaA == (boxA_[3] - boxA_[1]) * (boxA_[4] - boxA_[2])
    IN  IF inter_area = 0 THEN Zero ELSE <<inter_area, areaA>>

iou(boxA_, boxB_) ==
    LET xA == max(boxA_[1], boxB_[1])
        yA == max(boxA_[2], boxB_[2])
        xB == min(boxA_[3], boxB_[3])
        yB == min(boxA_[4], boxB_[4])
        inter_width == max(0, xB - xA)
        inter_height == max(0, yB - yA)
        inter_area == inter_width * inter_height
        areaA == (boxA_[3] - boxA_[1]) * (boxA_[4] - boxA_[2])
        areaB == (boxB_[3] - boxB_[1]) * (boxB_[4] - boxB_[2])
        union_area == areaA + areaB - inter_area
    IN  IF inter_area = 0 THEN Zero ELSE <<inter_area, union_area>>


-----------------------------------------------------------------------------
(* remove-duplicates.py: detect_duplicates_to_delete *)

\* line.get("mask"): a missing, null or empty mask is falsy
has_mask(line) == Len(line.mask) > 0

\* bboxes: the (pk, bbox) items of the lines that have a mask, in list order
bboxes_of(ls) ==
    LET masked == SelectSeq(ls, has_mask)
    IN  [i \in 1..Len(masked) |-> <<masked[i].pk, extract_bbox(masked[i].mask)>>]

\* itertools.combinations(range(1, n + 1), 2): the pairs (i, j), i < j, in
\* lexicographic order
RECURSIVE combinations(_, _, _)
combinations(n, i, j) ==
    IF i >= n THEN <<>>
    ELSE IF j > n THEN combinations(n, i + 1, i + 2)
    ELSE <<<<i, j>>>> \o combinations(n, i, j + 1)

\* tuple(sorted((id1, id2)))
pair_key(id1, id2) == IF id1 <= id2 THEN <<id1, id2>> ELSE <<id2, id1>>

\* a slip that takes a score of exactly 0.5 for a duplicate
is_duplicate_atLeast(score) == ~FloatGT(Half, score)

\* a slip in the threshold: 0.75 for 0.5
is_duplicate_threeQuarters(score) == FloatGT(score, <<3, 4>>)

\* score > 0.5
is_duplicate(score) == FloatGT(score, Half)

\* a slip that deletes the line with the larger x_min
delete_id_larger(id1, box1, id2, box2) == IF box1[1] > box2[1] THEN id1 ELSE id2

\* delete_id = id1 if box1[0] < box2[0] else id2
delete_id(id1, box1, id2, box2) == IF box1[1] < box2[1] THEN id1 ELSE id2

\* a slip that deletes both lines of a duplicate pair
RECURSIVE duplicates_loop_bothLines(_, _, _, _, _)
duplicates_loop_bothLines(bboxes, pairs, k, deleted, checked_pairs) ==
    IF k > Len(pairs) THEN deleted
    ELSE LET id1 == bboxes[pairs[k][1]][1]
             box1 == bboxes[pairs[k][1]][2]
             id2 == bboxes[pairs[k][2]][1]
             box2 == bboxes[pairs[k][2]][2]
             key == pair_key(id1, id2)
         IN  IF key \in checked_pairs
             THEN duplicates_loop_bothLines(bboxes, pairs, k + 1, deleted, checked_pairs)
             ELSE duplicates_loop_bothLines(bboxes, pairs, k + 1,
                      IF is_duplicate(iou(box1, box2))
                      THEN deleted \cup {id1, id2}
                      ELSE deleted,
                      checked_pairs \cup {key})

\* the for loop of detect_duplicates_to_delete from its k-th pair on
RECURSIVE duplicates_loop(_, _, _, _, _)
duplicates_loop(bboxes, pairs, k, deleted, checked_pairs) ==
    IF k > Len(pairs) THEN deleted
    ELSE LET id1 == bboxes[pairs[k][1]][1]
             box1 == bboxes[pairs[k][1]][2]
             id2 == bboxes[pairs[k][2]][1]
             box2 == bboxes[pairs[k][2]][2]
             key == pair_key(id1, id2)
         IN  IF key \in checked_pairs
             THEN duplicates_loop(bboxes, pairs, k + 1, deleted, checked_pairs)
             ELSE duplicates_loop(bboxes, pairs, k + 1,
                      IF is_duplicate(iou(box1, box2))
                      THEN deleted \cup {delete_id(id1, box1, id2, box2)}
                      ELSE deleted,
                      checked_pairs \cup {key})

\* the returned list, as the set of its elements
detect_duplicates_to_delete(ls) ==
    LET bboxes == bboxes_of(ls)
    IN  duplicates_loop(bboxes, combinations(Len(bboxes), 1, 2), 1, {}, {})


-----------------------------------------------------------------------------
(* reassign.py: rel_intersection and detect_reassignment *)

rel_intersection(box_a, box_b) ==
    LET x_a == max(box_a[1], box_b[1])
        y_a == max(box_a[2], box_b[2])
        x_b == min(box_a[3], box_b[3])
        y_b == min(box_a[4], box_b[4])
        width_a == abs(box_a[1] - box_a[3])
        height_a == abs(box_a[2] - box_a[4])
        inter_width == max(0, x_b - x_a)
        inter_height == max(0, y_b - y_a)
    IN  IF width_a = 0 \/ height_a = 0
        THEN Zero
        ELSE <<inter_width * inter_height, width_a * height_a>>

\* region.get("box"): a missing, null or empty box is falsy
has_box(region) == Len(region.box) > 0

\* region_bboxes: the (pk, bbox) items of the regions that have a box, in list order
region_bboxes_of(rs) ==
    LET boxed == SelectSeq(rs, has_box)
    IN  [i \in 1..Len(boxed) |-> <<boxed[i].pk, extract_bbox(boxed[i].box)>>]

\* best_idx = -1
NoBest == -1

\* a slip that lets a later region with an equal overlap replace the best one
improves_orEqual(current_intersection, best_intersection) ==
    /\ ~FloatGT(best_intersection, current_intersection)
    /\ FloatGT(current_intersection, Zero)

\* current_intersection > best_intersection and current_intersection > 0.0
improves(current_intersection, best_intersection) ==
    /\ FloatGT(current_intersection, best_intersection)
    /\ FloatGT(current_intersection, Zero)

\* the inner loop over region_bboxes.items() from its k-th item on; the
\* value is best_idx
RECURSIVE scan_regions(_, _, _, _, _)
scan_regions(mask, region_bboxes, k, best_idx, best_intersection) ==
    IF k > Len(region_bboxes) THEN best_idx
    ELSE LET current_intersection ==
                 rel_intersection(extract_bbox(mask), region_bboxes[k][2])
         IN  IF improves(current_intersection, best_intersection)
             THEN scan_regions(mask, region_bboxes, k + 1,
                               region_bboxes[k][1], current_intersection)
             ELSE scan_regions(mask, region_bboxes, k + 1, best_idx, best_intersection)

\* a slip that leaves out the comparison with the line's current region
needs_update_always(best_idx, line) == best_idx # NoBest

\* best_idx != -1 and best_idx != line.get("region"); a region of None is <<>>
needs_update(best_idx, line) == best_idx # NoBest /\ <<best_idx>> # line.region

\* the loop over the lines from the i-th line on.  extract_bbox(line["mask"])
\* is evaluated once per item of region_bboxes, so a line without a mask
\* raises as soon as there is one region with a box; the lines before it
\* have been updated in place by then.
RECURSIVE reassignment_loop(_, _, _, _)
reassignment_loop(ls, region_bboxes, i, updates) ==
    IF i > Len(ls) THEN [raised |-> FALSE, lines |-> ls, require_updates |-> updates]
    ELSE IF Len(region_bboxes) > 0 /\ extract_bbox_raises(ls[i].mask)
    THEN [raised |-> TRUE, lines |-> ls, require_updates |-> <<>>]
    ELSE LET best_idx == scan_regions(ls[i].mask, region_bboxes, 1, NoBest, Zero)
         IN  IF needs_update(best_idx, ls[i])
             THEN LET line == [ls[i] EXCEPT !.region = <<best_idx>>]
                  IN  reassignment_loop([ls EXCEPT ![i] = line], region_bboxes, i + 1,
                                        Append(updates, line))
             ELSE reassignment_loop(ls, region_bboxes, i + 1, updates)

\* the outcome of a call: whether it raised, the lines as the call leaves
\* them, and the returned list
detect_reassignment(ls, rs) == reassignment_loop(ls, region_bboxes_of(rs), 1, <<>>)


-----------------------------------------------------------------------------
(* The server's side of the bulk endpoints *)

\* lines/bulk_delete/: the lines left on the part
bulk_delete(srv, line_ids) ==
    LET kept(line) == line.pk \notin line_ids
    IN  SelectSeq(srv, kept)

\* lines/bulk_update/: each line of the payload replaces the line with its pk
bulk_update(srv, payload) ==
    LET newer(pk) == {k \in 1..Len(payload) : payload[k].pk = pk}
    IN  [i \in 1..Len(srv) |->
            IF newer(srv[i].pk) = {} THEN srv[i]
            ELSE payload[CHOOSE k \in newer(srv[i].pk) : TRUE]]

-----------------------------------------------------------------------------
(* Inputs *)

Coords == 0..MaxCoord

\* every box (x_min, y_min, x_max, y_max) on the grid, degenerate ones included
Boxes == {b \in Coords \X Coords \X Coords \X Coords : b[1] <= b[3] /\ b[2] <= b[4]}

\* the spans x0 <= x1 on the grid, zero-width ones included
Spans == {s \in Coords \X Coords : s[1] <= s[2]}

\* a line's shape: a span, or <<>> for a line without a mask
Shapes == {<<>>} \cup Spans

\* the mask of a shape: height 1 over the span, or empty
StripMask(shape, wire) ==
    IF shape = <<>> THEN <<>> ELSE CornerMask(shape[1], 0, shape[2], 1, wire)

NoResult == <<>>

IdleMetrics ==
    /\ boxA = <<>> /\ boxB = <<>> /\ scoreAB = NoResult /\ scoreBA = NoResult

IdleEngines ==
    /\ lines = <<>> /\ regions = <<>> /\ server_lines = <<>> /\ lines_before = <<>>
    /\ to_delete = {} /\ require_updates = <<>>

IdleDriver ==
    /\ driver = "none" /\ part_ids = <<>> /\ store = <<>> /\ cursor = 0
    /\ log = <<>> /\ fetch_failed = FALSE

-----------------------------------------------------------------------------
(* Calls of iou on a pair of boxes *)

InitMetrics ==
    /\ boxA \in Boxes /\ boxB \in Boxes
    /\ scoreAB = NoResult /\ scoreBA = NoResult
    /\ phase = "metrics"
    /\ IdleEngines /\ IdleDriver

CallIouAB ==
    /\ phase = "metrics" /\ scoreAB = NoResult
    /\ scoreAB' = iou(boxA, boxB)
    /\ UNCHANGED <<boxA, boxB, scoreBA, engineVars, phase, driverVars>>

CallIouBA ==
    /\ phase = "metrics" /\ scoreBA = NoResult
    /\ scoreBA' = iou(boxB, boxA)
    /\ UNCHANGED <<boxA, boxB, scoreAB, engineVars, phase, driverVars>>

NextMetrics == CallIouAB \/ CallIouBA

SpecMetrics == InitMetrics /\ [][NextMetrics]_vars

-----------------------------------------------------------------------------
(* detect_duplicates_to_delete on the lines of one part: a first call, the *)
(* bulk delete of what it returned, the part fetched again, a second call  *)

InitDedup ==
    /\ \E n \in 0..MaxLines :
         \E shapes \in [1..n -> Shapes] :
            lines = [i \in 1..n |->
                        [pk |-> n + 1 - i,
                         mask |-> StripMask(shapes[i], i % 2 = 0),
                         region |-> <<>>]]
    /\ regions = <<>>
    /\ server_lines = lines /\ lines_before = <<>>
    /\ to_delete = {} /\ require_updates = <<>>
    /\ phase = "start"
    /\ IdleMetrics /\ IdleDriver

CallDetectDuplicates ==
    /\ phase \in {"start", "refetched"}
    /\ to_delete' = detect_duplicates_to_delete(lines)
    /\ lines_before' = Append(lines_before, lines)
    /\ phase' = IF phase = "start" THEN "run1" ELSE "run2"
    /\ UNCHANGED <<lines, regions, server_lines, require_updates, metricVars, driverVars>>

BulkDeleteLines ==
    /\ phase = "run1"
    /\ server_lines' = bulk_delete(server_lines, to_delete)
    /\ phase' = "deleted"
    /\ UNCHANGED <<lines, regions, lines_before, to_delete, require_updates,
                   metricVars, driverVars>>

GetLines ==
    /\ phase = "deleted"
    /\ lines' = server_lines
    /\ phase' = "refetched"
    /\ UNCHANGED <<regions, server_lines, lines_before, to_delete, require_updates,
                   metricVars, driverVars>>

NextDedup == CallDetectDuplicates \/ BulkDeleteLines \/ GetLines

SpecDedup == InitDedup /\ [][NextDedup]_vars


-----------------------------------------------------------------------------
(* Properties of detect_duplicates_to_delete (SpecDedup) *)

\* the positions of the lines that have a mask
MaskedLines(ls) == {i \in 1..Len(ls) : Len(ls[i].mask) > 0}

BoxOf(ls, i) == extract_bbox(ls[i].mask)

XMin(ls, i) == BoxOf(ls, i)[1]

\* the pairs i < j of masked lines whose IoU is strictly greater than 0.5
ConflictingPairs(ls) ==
    {p \in MaskedLines(ls) \X MaskedLines(ls) :
        /\ p[1] < p[2]
        /\ LET score == iou(BoxOf(ls, p[1]), BoxOf(ls, p[2]))
           IN  2 * score[1] > score[2]}

\* the line a pair i < j nominates: the strictly smaller x_min, the later
\* line when the two x_min are equal
Nominee(ls, i, j) ==
    IF XMin(ls, i) < XMin(ls, j) THEN i
    ELSE IF XMin(ls, j) < XMin(ls, i) THEN j
    ELSE j

\* the line a pair i < j spares
Spared(ls, i, j) == IF Nominee(ls, i, j) = i THEN j ELSE i

\* the first call has returned and nothing has been written yet
FirstDedupDone == phase = "run1"

\* C8: the returned set is exactly the set of the lines nominated by the
\* pairs of masked lines with IoU > 0.5, each pair nominating its line with
\* the strictly smaller x_min, or its later line when the x_min are equal
C8_ExactlyTheNominees ==
    FirstDedupDone =>
        to_delete = {lines[Nominee(lines, p[1], p[2])].pk : p \in ConflictingPairs(lines)}

\* two masked lines with IoU exactly 0.5, and a conflicting pair with equal
\* x_min whose later line is deleted
C8_Witness ==
    /\ FirstDedupDone
    /\ \E i, j \in MaskedLines(lines) :
          LET score == iou(BoxOf(lines, i), BoxOf(lines, j))
          IN  i < j /\ 2 * score[1] = score[2]
    /\ \E p \in ConflictingPairs(lines) :
          /\ XMin(lines, p[1]) = XMin(lines, p[2])
          /\ lines[p[2]].pk \in to_delete
          /\ lines[p[1]].pk \notin to_delete

\* C1 as stated: no conflicting pair has both its lines in the returned set
C1_NeverBothOfAPair ==
    FirstDedupDone =>
        \A p \in ConflictingPairs(lines) :
            ~(lines[p[1]].pk \in to_delete /\ lines[p[2]].pk \in to_delete)

\* C1 as amended: a conflicting pair has both its lines in the returned set
\* only when the line the pair spares is nominated by a conflicting pair it
\* forms with a third line
C1_BothOnlyThroughAThirdLine ==
    FirstDedupDone =>
        \A p \in ConflictingPairs(lines) :
            (lines[p[1]].pk \in to_delete /\ lines[p[2]].pk \in to_delete) =>
                LET s == Spared(lines, p[1], p[2])
                IN  \E q \in ConflictingPairs(lines) :
                        /\ s \in {q[1], q[2]}
                        /\ {q[1], q[2]} # {p[1], p[2]}
                        /\ Nominee(lines, q[1], q[2]) = s

\* a conflicting pair with both lines deleted, and one with a line left
C1_Witness ==
    /\ FirstDedupDone
    /\ \E p \in ConflictingPairs(lines) :
          lines[p[1]].pk \in to_delete /\ lines[p[2]].pk \in to_delete
    /\ \E p \in ConflictingPairs(lines) :
          lines[Spared(lines, p[1], p[2])].pk \notin to_delete

\* the masked line with the greatest x_min, the earliest one among equals
LastStanding(ls) ==
    CHOOSE i \in MaskedLines(ls) :
        \A j \in MaskedLines(ls) :
            \/ XMin(ls, j) < XMin(ls, i)
            \/ (XMin(ls, j) = XMin(ls, i) /\ i <= j)

\* C10: with a masked line in the input, the masked line with the greatest
\* x_min (the earliest such line) is not in the returned set, so the set never
\* holds every masked line
C10_GreatestXMinSurvives ==
    (FirstDedupDone /\ MaskedLines(lines) # {}) =>
        /\ lines[LastStanding(lines)].pk \notin to_delete
        /\ to_delete # {lines[i].pk : i \in MaskedLines(lines)}

\* three lines, each pair of them conflicting, of which two are deleted
C10_Witness ==
    /\ FirstDedupDone
    /\ Cardinality(MaskedLines(lines)) = 3
    /\ Cardinality(ConflictingPairs(lines)) = 3
    /\ Cardinality(to_delete) = 2

\* C6: once the returned lines are deleted, no two masked lines of the part
\* have IoU > 0.5, and a second call returns nothing
C6_DedupIdempotent ==
    /\ phase \in {"refetched", "run2"} => ConflictingPairs(lines) = {}
    /\ phase = "run2" => to_delete = {}

\* a second call on a part that lost a line and kept two masked ones
C6_Witness ==
    /\ phase = "run2"
    /\ Len(lines) < Len(lines_before[1])
    /\ Cardinality(MaskedLines(lines)) >= 2


-----------------------------------------------------------------------------
(* detect_reassignment on the lines and regions of one part: a first call, *)
(* the bulk update of what it returned, the part fetched again, a second   *)
(* call                                                                    *)

\* the boxes of the lines: one of zero width, one that two of the regions
\* halve, one that lies in the right half
LineBoxes == {<<0, 0, 0, 1>>, <<0, 0, 2, 1>>, <<1, 0, 2, 2>>}

\* the boxes of the regions: a left half, a right half and the whole
RegionBoxes == {<<0, 0, 1, 1>>, <<1, 0, 2, 1>>, <<0, 0, 2, 2>>}

\* the mask of a box, or the empty mask for <<>>
BoxMask(b, wire) ==
    IF b = <<>> THEN <<>> ELSE CornerMask(b[1], b[2], b[3], b[4], wire)

\* a line's region: None, or the pk of the part's first region
RegionRefs == {<<>>, <<1>>}

InitReassign ==
    /\ \E n \in 0..MaxRLines, r \in 0..MaxRegions :
         \E lbox \in [1..n -> {<<>>} \cup LineBoxes], ref \in [1..n -> RegionRefs],
            rbox \in [1..r -> {<<>>} \cup RegionBoxes] :
            /\ lines = [i \in 1..n |->
                          [pk |-> i, mask |-> BoxMask(lbox[i], i % 2 = 0), region |-> ref[i]]]
            /\ regions = [k \in 1..r |-> [pk |-> k, box |-> BoxMask(rbox[k], k % 2 = 1)]]
    /\ server_lines = lines /\ lines_before = <<>>
    /\ to_delete = {} /\ require_updates = <<>>
    /\ phase = "start"
    /\ IdleMetrics /\ IdleDriver

CallDetectReassignment ==
    /\ phase \in {"start", "refetched"}
    /\ LET r == detect_reassignment(lines, regions)
       IN  /\ lines' = r.lines
           /\ require_updates' = r.require_updates
           /\ phase' = IF r.raised THEN "raised"
                       ELSE IF phase = "start" THEN "run1" ELSE "run2"
    /\ lines_before' = Append(lines_before, lines)
    /\ UNCHANGED <<regions, server_lines, to_delete, metricVars, driverVars>>

BulkUpdate ==
    /\ phase = "run1"
    /\ server_lines' = bulk_update(server_lines, require_updates)
    /\ phase' = "updated"
    /\ UNCHANGED <<lines, regions, lines_before, to_delete, require_updates,
                   metricVars, driverVars>>

GetLinesAndRegions ==
    /\ phase = "updated"
    /\ lines' = server_lines
    /\ phase' = "refetched"
    /\ UNCHANGED <<regions, server_lines, lines_before, to_delete, require_updates,
                   metricVars, driverVars>>

NextReassign == CallDetectReassignment \/ BulkUpdate \/ GetLinesAndRegions

SpecReassign == InitReassign /\ [][NextReassign]_vars

-----------------------------------------------------------------------------
(* Properties of detect_reassignment (SpecReassign) *)

\* the positions of the regions that have a box
BoxedRegions == {k \in 1..Len(regions) : Len(regions[k].box) > 0}

\* the relative overlap of line i of ls with region k
Overlap(ls, i, k) == rel_intersection(extract_bbox(ls[i].mask), extract_bbox(regions[k].box))

\* the regions that line i of ls overlaps
Candidates(ls, i) ==
    {k \in BoxedRegions : LET o == Overlap(ls, i, k) IN o[1] * o[2] > 0}

\* the candidate with the greatest overlap, the first one among equals
Best(ls, i) ==
    CHOOSE k \in Candidates(ls, i) :
        \A m \in Candidates(ls, i) :
            LET ok == Overlap(ls, i, k)
                om == Overlap(ls, i, m)
            IN  \/ ok[1] * om[2] > om[1] * ok[2]
                \/ (ok[1] * om[2] = om[1] * ok[2] /\ k <= m)

\* line i of ls has a best region, and it is not the line's region
MustMove(ls, i) ==
    /\ Candidates(ls, i) # {}
    /\ <<regions[Best(ls, i)].pk>> # ls[i].region

\* the lines of the returned list that have the pk of line i of ls
Returned(ls, i) == {u \in 1..Len(require_updates) : require_updates[u].pk = ls[i].pk}

\* C9: the first call has returned; each masked line is in the returned list,
\* with the first region of greatest positive overlap as its region, exactly
\* when it has such a region and it differs from the line's region; every
\* other masked line keeps its region
C9_BestRegionChosen ==
    phase = "run1" =>
        \A i \in MaskedLines(lines_before[1]) :
            LET ls == lines_before[1] IN
            /\ MustMove(ls, i) <=> Returned(ls, i) # {}
            /\ MustMove(ls, i) =>
                  /\ lines[i].region = <<regions[Best(ls, i)].pk>>
                  /\ \A u \in Returned(ls, i) : require_updates[u] = lines[i]
            /\ ~MustMove(ls, i) => lines[i] = ls[i]

\* a line moved to the first of two regions of equal greatest overlap, and a
\* masked line that overlaps no region and stays
C9_Witness ==
    /\ phase = "run1"
    /\ \E i \in MaskedLines(lines_before[1]) :
          LET ls == lines_before[1] IN
          /\ MustMove(ls, i)
          /\ \E m \in Candidates(ls, i) :
                /\ m > Best(ls, i)
                /\ FloatEQ(Overlap(ls, i, m), Overlap(ls, i, Best(ls, i)))
          /\ Returned(ls, i) # {}
    /\ \E i \in MaskedLines(lines_before[1]) :
          /\ Candidates(lines_before[1], i) = {}
          /\ BoxedRegions # {}

\* C2: a second call, on the lines as the first call's updates left them,
\* returns nothing and changes no line
C2_ReassignIdempotent ==
    phase = "run2" => require_updates = <<>> /\ lines = lines_before[2]

\* a second call after a first call that moved a line
C2_Witness ==
    /\ phase = "run2"
    /\ lines_before[1] # lines_before[2]

\* C3: with a line without a mask among the lines, the call returns, the
\* line is not in what either function returns, and both return what they
\* return for the other lines alone
C3_UnmaskedLineIsSkipped ==
    (Len(lines_before) = 1 /\ MaskedLines(lines_before[1]) # DOMAIN lines_before[1]) =>
        LET ls == lines_before[1]
            others == SelectSeq(ls, has_mask)
            nomask == {ls[i].pk : i \in (DOMAIN ls) \ MaskedLines(ls)}
        IN  /\ phase # "raised"
            /\ \A u \in 1..Len(require_updates) : require_updates[u].pk \notin nomask
            /\ require_updates = detect_reassignment(others, regions).require_updates
            /\ detect_duplicates_to_delete(ls) \cap nomask = {}
            /\ detect_duplicates_to_delete(ls) = detect_duplicates_to_delete(others)


-----------------------------------------------------------------------------
(* main of reassign.py and of remove-duplicates.py: the parts of a         *)
(* document, one after the other.  Each request to the server is a step;   *)
(* log is the list of the requests sent and of the decisions taken.        *)

\* a part with nothing to do: its line lies in its region and has no double
CleanPart ==
    [lines |-> <<[pk |-> 1, mask |-> BoxMask(<<0, 0, 2, 1>>, FALSE), region |-> <<1>>]>>,
     regions |-> <<[pk |-> 1, box |-> BoxMask(<<0, 0, 2, 2>>, FALSE)]>>]

\* a part with work for both scripts: twice the same line, in no region
DoubledPart ==
    [lines |-> <<[pk |-> 1, mask |-> BoxMask(<<0, 0, 2, 1>>, FALSE), region |-> <<>>],
                 [pk |-> 2, mask |-> BoxMask(<<0, 0, 2, 1>>, FALSE), region |-> <<>>]>>,
     regions |-> <<[pk |-> 1, box |-> BoxMask(<<0, 0, 2, 2>>, FALSE)]>>]

\* a part with a line that has no mask
UnmaskedPart ==
    [lines |-> <<[pk |-> 1, mask |-> BoxMask(<<0, 0, 2, 1>>, FALSE), region |-> <<>>],
                 [pk |-> 2, mask |-> <<>>, region |-> <<>>]>>,
     regions |-> <<[pk |-> 1, box |-> BoxMask(<<0, 0, 2, 2>>, FALSE)]>>]

Parts == {CleanPart, DoubledPart, UnmaskedPart}

Entry(op, part, ok, n) == [op |-> op, part |-> part, ok |-> ok, n |-> n]

InitDriver ==
    /\ driver \in {"reassign", "remove-duplicates"}
    /\ \E n \in 0..MaxParts : store \in [1..n -> Parts]
    /\ part_ids = <<>> /\ cursor = 1 /\ log = <<>> /\ fetch_failed = FALSE
    /\ phase = "begin"
    /\ IdleMetrics /\ IdleEngines

\* part_ids = get_all_parts(...): raise_for_status ends the run on a failure
MainGetAllParts ==
    /\ phase = "begin"
    /\ \E ok \in BOOLEAN :
          /\ log' = Append(log, Entry("get_all_parts", 0, ok, 0))
          /\ part_ids' = IF ok THEN [i \in 1..Len(store) |-> i] ELSE part_ids
          /\ fetch_failed' = ~ok
          /\ phase' = IF ok THEN "loop" ELSE "aborted"
    /\ UNCHANGED <<driver, store, cursor, metricVars, engineVars>>

\* get_lines / get_lines_and_regions of the next part
MainGetPart ==
    /\ phase = "loop" /\ cursor <= Len(part_ids)
    /\ \E ok \in BOOLEAN :
          /\ log' = Append(log, Entry("get_part", part_ids[cursor], ok, 0))
          /\ lines' = IF ok THEN store[part_ids[cursor]].lines ELSE lines
          /\ regions' = IF ok THEN store[part_ids[cursor]].regions ELSE regions
          /\ fetch_failed' = ~ok
          /\ phase' = IF ok THEN "fetched" ELSE "aborted"
    /\ UNCHANGED <<driver, part_ids, store, cursor, metricVars, server_lines,
                   lines_before, to_delete, require_updates>>

\* if to_reassign: / if to_delete:
after_decision(n) == IF n > 0 THEN "write" ELSE "loop"

\* to_reassign = detect_reassignment(lines, regions); an exception ends the run
MainDetectReassignment ==
    /\ phase = "fetched" /\ driver = "reassign"
    /\ LET r == detect_reassignment(lines, regions)
           n == Len(r.require_updates)
       IN  /\ lines' = r.lines
           /\ require_updates' = r.require_updates
           /\ log' = IF r.raised THEN log
                     ELSE Append(log, Entry("decide", part_ids[cursor], TRUE, n))
           /\ phase' = IF r.raised THEN "aborted" ELSE after_decision(n)
           /\ cursor' = IF ~r.raised /\ n = 0 THEN cursor + 1 ELSE cursor
    /\ UNCHANGED <<driver, part_ids, store, fetch_failed, metricVars, regions,
                   server_lines, lines_before, to_delete>>

\* to_delete = detect_duplicates_to_delete(lines)
MainDetectDuplicates ==
    /\ phase = "fetched" /\ driver = "remove-duplicates"
    /\ LET r == detect_duplicates_to_delete(lines)
           n == Cardinality(r)
       IN  /\ to_delete' = r
           /\ log' = Append(log, Entry("decide", part_ids[cursor], TRUE, n))
           /\ phase' = after_decision(n)
           /\ cursor' = IF n = 0 THEN cursor + 1 ELSE cursor
    /\ UNCHANGED <<driver, part_ids, store, fetch_failed, metricVars, lines, regions,
                   server_lines, lines_before, require_updates>>

\* a slip that recalculates the ordering only after a write that succeeded
after_write_onlyIfOk(ok) == IF ok THEN "recalc" ELSE "loop"

\* recalculate_ordering follows the bulk write whatever its status
after_write(ok) == "recalc"

\* bulk_update(document_id, part_id, token, to_reassign)
MainBulkUpdate ==
    /\ phase = "write" /\ driver = "reassign"
    /\ \E ok \in BOOLEAN :
          /\ log' = Append(log, Entry("write", part_ids[cursor], ok, Len(require_updates)))
          /\ store' = IF ok
                      THEN [store EXCEPT ![part_ids[cursor]].lines =
                                bulk_update(@, require_updates)]
                      ELSE store
          /\ phase' = after_write(ok)
          /\ cursor' = IF after_write(ok) = "recalc" THEN cursor ELSE cursor + 1
    /\ UNCHANGED <<driver, part_ids, fetch_failed, metricVars, engineVars>>

\* bulk_delete_lines(document_id, part_id, to_delete, token)
MainBulkDelete ==
    /\ phase = "write" /\ driver = "remove-duplicates"
    /\ \E ok \in BOOLEAN :
          /\ log' = Append(log, Entry("write", part_ids[cursor], ok, Cardinality(to_delete)))
          /\ store' = IF ok
                      THEN [store EXCEPT ![part_ids[cursor]].lines =
                                bulk_delete(@, to_delete)]
                      ELSE store
          /\ phase' = after_write(ok)
          /\ cursor' = IF after_write(ok) = "recalc" THEN cursor ELSE cursor + 1
    /\ UNCHANGED <<driver, part_ids, fetch_failed, metricVars, engineVars>>

\* recalculate_ordering(document_id, part_id, token), then the next part
MainRecalculateOrdering ==
    /\ phase = "recalc"
    /\ \E ok \in BOOLEAN :
          log' = Append(log, Entry("recalc", part_ids[cursor], ok, 0))
    /\ cursor' = cursor + 1
    /\ phase' = "loop"
    /\ UNCHANGED <<driver, part_ids, store, fetch_failed, metricVars, engineVars>>

\* the loop over part_ids is exhausted
MainReturn ==
    /\ phase = "loop" /\ cursor > Len(part_ids)
    /\ phase' = "done"
    /\ UNCHANGED <<driverVars, metricVars, engineVars>>

NextDriver ==
    \/ MainGetAllParts
    \/ MainGetPart
    \/ MainDetectReassignment
    \/ MainDetectDuplicates
    \/ MainBulkUpdate
    \/ MainBulkDelete
    \/ MainRecalculateOrdering
    \/ MainReturn

SpecDriver == InitDriver /\ [][NextDriver]_vars

-----------------------------------------------------------------------------
(* Properties of the two main loops (SpecDriver) *)

\* the parts for which a decision was reached
Decided == {log[k].part : k \in {k \in 1..Len(log) : log[k].op = "decide"}}

\* C4: a run of which no fetch failed ends with every part of the document
\* processed, whatever the statuses of its writes and recalculations
C4_EveryPartProcessedUnlessAFetchFails ==
    (phase \in {"done", "aborted"} /\ ~fetch_failed) =>
        /\ phase = "done"
        /\ Decided = DOMAIN store

\* a run ends early only on a failed fetch or on the exception that
\* detect_reassignment raises for a line without a mask; no status of a
\* write or of a recalculation ends it
AbortsOnlyOnFetchOrException ==
    phase = "aborted" =>
        \/ fetch_failed /\ ~log[Len(log)].ok
        \/ /\ driver = "reassign"
           /\ log[Len(log)].op = "get_part"
           /\ MaskedLines(lines) # DOMAIN lines

\* C5: a decision that is not empty is followed by the bulk write, the bulk
\* write by the recalculation whatever its status, and only then comes the
\* next part; an empty decision is followed by neither
C5_RecalculationFollowsEachWrite ==
    \A k \in 1..Len(log) :
        LET e == log[k]
            last == k = Len(log)
            next == log[k + 1]
            prev == log[k - 1]
        IN  /\ (e.op = "decide" /\ e.n > 0) =>
                  IF last THEN phase = "write"
                  ELSE next.op = "write" /\ next.part = e.part
            /\ (e.op = "decide" /\ e.n = 0) =>
                  IF last THEN phase \in {"loop", "done"}
                  ELSE next.op = "get_part" /\ next.part # e.part
            /\ e.op = "write" =>
                  /\ prev.op = "decide" /\ prev.n > 0 /\ prev.part = e.part
                  /\ IF last THEN phase = "recalc"
                     ELSE next.op = "recalc" /\ next.part = e.part
            /\ e.op = "recalc" =>
                  /\ prev.op = "write" /\ prev.part = e.part
                  /\ IF last THEN phase \in {"loop", "done"}
                     ELSE next.op = "get_part" /\ next.part # e.part
            /\ e.op = "get_part" =>
                  prev.op \in {"get_all_parts", "recalc", "decide"}

\* a write that failed, its recalculation, then the next part fetched and
\* found with nothing to do
C5_Witness ==
    \E k \in 1..Len(log) :
        /\ k + 3 <= Len(log)
        /\ log[k].op = "write" /\ ~log[k].ok
        /\ log[k + 1].op = "recalc"
        /\ log[k + 2].op = "get_part"
        /\ log[k + 3].op = "decide" /\ log[k + 3].n = 0
        /\ phase = "done"


-----------------------------------------------------------------------------
(* Properties of iou (SpecMetrics) *)

Area(b) == (b[3] - b[1]) * (b[4] - b[2])

\* C7: iou of two boxes is the same float in either order of the arguments
C7_IouSymmetric ==
    (scoreAB # NoResult /\ scoreBA # NoResult) => FloatEQ(scoreAB, scoreBA)

\* both orders called on two overlapping boxes of different areas
C7_Witness ==
    /\ scoreAB # NoResult /\ scoreBA # NoResult
    /\ FloatGT(scoreAB, Zero)
    /\ Area(boxA) # Area(boxB)

=============================================================================
